---- MODULE Spec2Model ----
(***************************************************************************)
(* Node layer of the arena-addressed B-tree (src/generic/node.rs):         *)
(* Offset, the Node dispatch union over Leaf / Internal, and the Children  *)
(* and ChildrenWithSeparators iterators.                                   *)
(***************************************************************************)
EXTENDS Integers, Sequences, FiniteSets, TLC

VARIABLES off, off_pre, off_op,
          node, last,
          iter, yielded

vars == <<off, off_pre, off_op, node, last, iter, yielded>>

offVars == <<off, off_pre, off_op>>
nodeVars == <<node, last>>
iterVars == <<iter, yielded>>

(***************************************************************************)
(* Bounds of the model.                                                    *)
(***************************************************************************)
\* width of usize in the model (64 on the real targets)
UsizeBits == 4
\* number of distinct items (key/value entries)
NumItems == 2
\* number of distinct child addresses
NumIds == 2
\* calls of next() made on an exhausted iterator
MaxNones == 2

USIZE_MAX == 2^UsizeBits - 1
Usize == 0..USIZE_MAX

Items == 1..NumItems
Ids == 1..NumIds

\* Option::None for items, child addresses and indices
NoItem == 0
NoId == 0
None == -1

(***************************************************************************)
(* Offset (node.rs 23-121): a usize whose value usize::MAX is the          *)
(* "before the first item" sentinel.                                       *)
(***************************************************************************)
before == USIZE_MAX

is_before(o) == o = USIZE_MAX

value(o) == IF o = USIZE_MAX THEN None ELSE o

\* unwrap panics on the sentinel
unwrap_panics(o) == o = USIZE_MAX

unwrap(o) == o

incr(o) == IF o = USIZE_MAX THEN 0 ELSE (o + 1) % (USIZE_MAX + 1)

decr(o) == IF o = 0 THEN USIZE_MAX ELSE o - 1

\* impl Ord for Offset
cmp(a, b) ==
    IF a = USIZE_MAX \/ b = USIZE_MAX
    THEN IF a = USIZE_MAX /\ b = USIZE_MAX THEN "Equal"
         ELSE IF a = USIZE_MAX THEN "Less"
         ELSE "Greater"
    ELSE IF a < b THEN "Less" ELSE IF a = b THEN "Equal" ELSE "Greater"

\* impl PartialEq for Offset (derived: equality of the wrapped usize)
offset_eq(a, b) == a = b

\* impl PartialOrd<usize> for Offset
partial_cmp_usize(o, k) ==
    IF o = USIZE_MAX THEN "Less"
    ELSE IF o < k THEN "Less" ELSE IF o = k THEN "Equal" ELSE "Greater"

\* `offset < k` with k a raw index
lt_usize(o, k) == partial_cmp_usize(o, k) = "Less"

\* impl From<usize> for Offset
from(k) == k

(***************************************************************************)
(* Offset state machine: one Offset value, mutated in place by incr/decr   *)
(* or re-assigned from a constructor.                                      *)
(***************************************************************************)
OffBefore ==
    /\ off' = before
    /\ off_pre' = off
    /\ off_op' = "before"
    /\ UNCHANGED <<nodeVars, iterVars>>

OffFrom ==
    \E k \in Usize :
        /\ off' = from(k)
        /\ off_pre' = off
        /\ off_op' = "from"
        /\ UNCHANGED <<nodeVars, iterVars>>

OffIncr ==
    /\ off' = incr(off)
    /\ off_pre' = off
    /\ off_op' = "incr"
    /\ UNCHANGED <<nodeVars, iterVars>>

OffDecr ==
    /\ off' = decr(off)
    /\ off_pre' = off
    /\ off_op' = "decr"
    /\ UNCHANGED <<nodeVars, iterVars>>


(***************************************************************************)
(* Node representation.  A leaf is a flat sequence of items; an internal   *)
(* node is one leading child address plus a sequence of branches           *)
(* (separator item, right child address), as the Children iterators of     *)
(* node.rs 543-570 show.  The parent back-reference is not modelled.       *)
(***************************************************************************)
\* configured occupancy bounds of the tree order
MinItems == 1
MaxItems == 3

NoNode == [kind |-> "None", items |-> << >>, first_child |-> NoId, branches |-> << >>]

Branch(item, child) == [item |-> item, child |-> child]

InsertAt(s, i, e) == SubSeq(s, 1, i) \o <<e>> \o SubSeq(s, i + 1, Len(s))

RemoveAt(s, i) == SubSeq(s, 1, i) \o SubSeq(s, i + 2, Len(s))

\* LeafNode::new
leaf_new(item) ==
    [kind |-> "Leaf", items |-> <<item>>, first_child |-> NoId, branches |-> << >>]

\* InternalNode::binary
internal_binary(left_id, median, right_id) ==
    [kind |-> "Internal", items |-> << >>, first_child |-> left_id,
     branches |-> <<Branch(median, right_id)>>]

\* Node::binary / Node::leaf
binary(left_id, median, right_id) == internal_binary(left_id, median, right_id)

leaf(item) == leaf_new(item)

leaf_item_count(n) == Len(n.items)

internal_item_count(n) == Len(n.branches)

\* the child addresses of an internal node, leading child first
internal_child_ids(n) == <<n.first_child>> \o [i \in 1..Len(n.branches) |-> n.branches[i].child]

internal_child_count(n) == Len(internal_child_ids(n))

\* the items of a node in order
node_items(n) ==
    IF n.kind = "Internal" THEN [i \in 1..Len(n.branches) |-> n.branches[i].item]
    ELSE n.items

\* Node::item_count
item_count(n) ==
    IF n.kind = "Internal" THEN internal_item_count(n) ELSE leaf_item_count(n)

\* mutant of child_count: the leading child is not counted
child_count_without_first(n) ==
    IF n.kind = "Internal" THEN internal_item_count(n) ELSE 0

\* Node::child_count
child_count(n) ==
    IF n.kind = "Internal" THEN internal_child_count(n) ELSE 0

\* Balance of a node against (min_items, max_items)
balance(n) ==
    IF item_count(n) < MinItems
    THEN IF item_count(n) = 0 THEN "Underflow(true)" ELSE "Underflow(false)"
    ELSE IF item_count(n) > MaxItems THEN "Overflow" ELSE "Balanced"

(***************************************************************************)
(* Results of a call: the node after the call, how the call ended          *)
(* ("ok", "none", "underflow", "panic") and the returned components.       *)
(***************************************************************************)
Ret(status, n) ==
    [status |-> status, node |-> n, off |-> None, item |-> NoItem, id |-> NoId,
     id2 |-> NoId, len |-> None, right |-> NoNode, balance |-> "-"]

Panic(n) == Ret("panic", n)

(***************************************************************************)
(* LeafNode operations (section 4.2).                                      *)
(***************************************************************************)
\* pop_left / pop_right give up an item only if the node keeps at least
\* min_items items and does not become empty
would_underflow(n) == item_count(n) - 1 < MinItems \/ item_count(n) - 1 <= 0

leaf_insert(n, offset, item) ==
    IF unwrap_panics(offset) \/ unwrap(offset) > Len(n.items) THEN Panic(n)
    ELSE Ret("ok", [n EXCEPT !.items = InsertAt(@, unwrap(offset), item)])

leaf_remove_at(n, offset) ==
    IF unwrap_panics(offset) \/ unwrap(offset) >= Len(n.items) THEN Panic(n)
    ELSE [Ret("ok", [n EXCEPT !.items = RemoveAt(@, unwrap(offset))])
            EXCEPT !.item = n.items[unwrap(offset) + 1]]

leaf_push_left(n, item) ==
    Ret("ok", [n EXCEPT !.items = <<item>> \o @])

leaf_pop_left(n) ==
    IF would_underflow(n) THEN Ret("underflow", n)
    ELSE [Ret("ok", [n EXCEPT !.items = Tail(@)]) EXCEPT !.item = Head(n.items)]

leaf_push_right(n, item) ==
    [Ret("ok", [n EXCEPT !.items = Append(@, item)]) EXCEPT !.off = from(Len(n.items))]

leaf_pop_right(n) ==
    IF would_underflow(n) THEN Ret("underflow", n)
    ELSE [Ret("ok", [n EXCEPT !.items = SubSeq(@, 1, Len(@) - 1)])
            EXCEPT !.item = n.items[Len(n.items)], !.off = from(Len(n.items) - 1)]

\* split around the item at index m: self keeps the items before it, the
\* right sibling gets the items after it
leaf_split(n, m) ==
    IF Len(n.items) = 0 THEN Panic(n)
    ELSE [Ret("ok", [n EXCEPT !.items = SubSeq(@, 1, m)])
            EXCEPT !.len = m,
                   !.item = n.items[m + 1],
                   !.right = [kind |-> "Leaf", items |-> SubSeq(n.items, m + 2, Len(n.items)),
                              first_child |-> NoId, branches |-> << >>]]

\* self + [separator] + other
leaf_append(n, separator, o) ==
    [Ret("ok", [n EXCEPT !.items = @ \o <<separator>> \o o.items])
        EXCEPT !.off = from(Len(n.items))]

(***************************************************************************)
(* InternalNode operations (section 4.3).                                  *)
(***************************************************************************)
internal_child_id_opt(n, index) ==
    IF index < internal_child_count(n) THEN internal_child_ids(n)[index + 1] ELSE NoId

internal_child_index(n, id) ==
    IF \E i \in 1..internal_child_count(n) : internal_child_ids(n)[i] = id
    THEN (CHOOSE i \in 1..internal_child_count(n) :
            /\ internal_child_ids(n)[i] = id
            /\ \A j \in 1..(i - 1) : internal_child_ids(n)[j] # id) - 1
    ELSE None

internal_insert(n, offset, item, child_id) ==
    IF unwrap_panics(offset) \/ unwrap(offset) > Len(n.branches) THEN Panic(n)
    ELSE Ret("ok", [n EXCEPT !.branches = InsertAt(@, unwrap(offset), Branch(item, child_id))])

internal_replace(n, offset, item) ==
    IF unwrap_panics(offset) \/ unwrap(offset) >= Len(n.branches) THEN Panic(n)
    ELSE [Ret("ok", [n EXCEPT !.branches[unwrap(offset) + 1].item = item])
            EXCEPT !.item = n.branches[unwrap(offset) + 1].item]

\* the pushed child becomes the leading child; the old leading child
\* becomes the right child of the pushed separator
internal_push_left(n, item, child_id) ==
    Ret("ok", [n EXCEPT !.first_child = child_id,
                        !.branches = <<Branch(item, n.first_child)>> \o @])

internal_pop_left(n) ==
    IF would_underflow(n) THEN Ret("underflow", n)
    ELSE [Ret("ok", [n EXCEPT !.first_child = n.branches[1].child,
                              !.branches = Tail(@)])
            EXCEPT !.item = n.branches[1].item, !.id = n.first_child]

internal_push_right(n, item, child_id) ==
    [Ret("ok", [n EXCEPT !.branches = Append(@, Branch(item, child_id))])
        EXCEPT !.off = from(Len(n.branches))]

internal_pop_right(n) ==
    IF would_underflow(n) THEN Ret("underflow", n)
    ELSE [Ret("ok", [n EXCEPT !.branches = SubSeq(@, 1, Len(@) - 1)])
            EXCEPT !.item = n.branches[Len(n.branches)].item,
                   !.id = n.branches[Len(n.branches)].child,
                   !.off = from(Len(n.branches) - 1)]

internal_split(n, m) ==
    IF Len(n.branches) = 0 THEN Panic(n)
    ELSE [Ret("ok", [n EXCEPT !.branches = SubSeq(@, 1, m)])
            EXCEPT !.len = m,
                   !.item = n.branches[m + 1].item,
                   !.right = [kind |-> "Internal", items |-> << >>,
                              first_child |-> n.branches[m + 1].child,
                              branches |-> SubSeq(n.branches, m + 2, Len(n.branches))]]

internal_append(n, separator, o) ==
    [Ret("ok", [n EXCEPT !.branches = @ \o <<Branch(separator, o.first_child)>> \o o.branches])
        EXCEPT !.off = from(Len(n.branches))]

\* the separator between the two children is demoted, the right child is
\* freed and the left child survives
internal_merge(n, left_index, right_index) ==
    IF right_index # left_index + 1 \/ right_index >= internal_child_count(n) THEN Panic(n)
    ELSE LET after == [n EXCEPT !.branches = RemoveAt(@, left_index)]
         IN [Ret("ok", after)
               EXCEPT !.item = n.branches[left_index + 1].item,
                      !.id = n.branches[left_index + 1].child,
                      !.id2 = internal_child_ids(n)[left_index + 1],
                      !.balance = balance(after)]

\* where split may cut a node of len items: roughly in half
MedianChoices(len) == {(len - 1) \div 2, len \div 2}

(***************************************************************************)
(* Node: the dispatch union (node.rs 170-516).  Each operator gives the    *)
(* result of the call on node n.                                           *)
(***************************************************************************)
\* Node::child_index
child_index(n, id) ==
    IF n.kind = "Internal"
    THEN IF internal_child_index(n, id) = None THEN Ret("none", n)
         ELSE [Ret("ok", n) EXCEPT !.len = internal_child_index(n, id)]
    ELSE Ret("none", n)

\* mutant of child_id: a leaf answers None instead of panicking
child_id_leaf_none(n, index) ==
    IF n.kind = "Internal"
    THEN IF internal_child_id_opt(n, index) = NoId THEN Panic(n)
         ELSE [Ret("ok", n) EXCEPT !.id = internal_child_id_opt(n, index)]
    ELSE Ret("none", n)

\* Node::child_id
child_id(n, index) ==
    IF n.kind = "Internal"
    THEN IF internal_child_id_opt(n, index) = NoId THEN Panic(n)
         ELSE [Ret("ok", n) EXCEPT !.id = internal_child_id_opt(n, index)]
    ELSE Panic(n)

\* Node::child_id_opt
child_id_opt(n, index) ==
    IF n.kind = "Internal"
    THEN IF internal_child_id_opt(n, index) = NoId THEN Ret("none", n)
         ELSE [Ret("ok", n) EXCEPT !.id = internal_child_id_opt(n, index)]
    ELSE Ret("none", n)

\* Node::split
split(n, m) ==
    IF n.kind = "Internal" THEN internal_split(n, m) ELSE leaf_split(n, m)

\* Node::merge
merge(n, left_index, right_index) ==
    IF n.kind = "Internal" THEN internal_merge(n, left_index, right_index)
    ELSE Panic(n)

\* mutant of append: the operands are concatenated the wrong way round
append_swapped(n, separator, o) ==
    IF n.kind = "Internal" /\ o.kind = "Internal"
    THEN [internal_append(o, separator, n) EXCEPT !.off = from(Len(n.branches))]
    ELSE IF n.kind = "Leaf" /\ o.kind = "Leaf"
    THEN [leaf_append(o, separator, n) EXCEPT !.off = from(Len(n.items))]
    ELSE Panic(n)

\* Node::append
append(n, separator, o) ==
    IF n.kind = "Internal" /\ o.kind = "Internal" THEN internal_append(n, separator, o)
    ELSE IF n.kind = "Leaf" /\ o.kind = "Leaf" THEN leaf_append(n, separator, o)
    ELSE Panic(n)

\* mutant of push_left: a leaf ignores the child address it is given
push_left_unchecked(n, item, opt_child_id) ==
    IF n.kind = "Internal"
    THEN IF opt_child_id = NoId THEN Panic(n)
         ELSE internal_push_left(n, item, opt_child_id)
    ELSE leaf_push_left(n, item)

\* Node::push_left
push_left(n, item, opt_child_id) ==
    IF n.kind = "Internal"
    THEN IF opt_child_id = NoId THEN Panic(n)
         ELSE internal_push_left(n, item, opt_child_id)
    ELSE IF opt_child_id # NoId THEN Panic(n)
         ELSE leaf_push_left(n, item)

\* Node::pop_left
pop_left(n) ==
    IF n.kind = "Internal" THEN internal_pop_left(n)
    ELSE [leaf_pop_left(n) EXCEPT !.id = NoId]

\* Node::push_right
push_right(n, item, opt_child_id) ==
    IF n.kind = "Internal"
    THEN IF opt_child_id = NoId THEN Panic(n)
         ELSE internal_push_right(n, item, opt_child_id)
    ELSE IF opt_child_id # NoId THEN Panic(n)
         ELSE leaf_push_right(n, item)

\* mutant of pop_right: the popped child address is dropped
pop_right_without_child(n) ==
    IF n.kind = "Internal" THEN [internal_pop_right(n) EXCEPT !.id = NoId]
    ELSE [leaf_pop_right(n) EXCEPT !.id = NoId]

\* Node::pop_right
pop_right(n) ==
    IF n.kind = "Internal" THEN internal_pop_right(n)
    ELSE [leaf_pop_right(n) EXCEPT !.id = NoId]

\* Node::leaf_remove; "err" is Some(Err(child id)), "ok" is Some(Ok(item))
leaf_remove(n, offset) ==
    IF n.kind = "Internal"
    THEN IF lt_usize(offset, item_count(n))
         THEN IF unwrap_panics(offset) THEN Panic(n)
              ELSE [child_id(n, unwrap(offset)) EXCEPT
                       !.status = IF @ = "ok" THEN "err" ELSE @]
         ELSE Ret("none", n)
    ELSE IF lt_usize(offset, item_count(n))
         THEN leaf_remove_at(n, offset)
         ELSE Ret("none", n)

\* Node::insert
insert(n, offset, item, opt_right_child_id) ==
    IF n.kind = "Internal"
    THEN IF opt_right_child_id = NoId THEN Panic(n)
         ELSE internal_insert(n, offset, item, opt_right_child_id)
    ELSE IF opt_right_child_id # NoId THEN Panic(n)
         ELSE leaf_insert(n, offset, item)

\* Node::replace
replace(n, offset, item) ==
    IF n.kind = "Internal" THEN internal_replace(n, offset, item)
    ELSE Panic(n)

(***************************************************************************)
(* The driver's calls on one node.  `last` records the latest call: its    *)
(* name, the node before it, its arguments and its result.  A panic ends   *)
(* the program.  The inserting calls are made only while the node holds at *)
(* most max_items items (the driver splits an overflowing node first).     *)
(***************************************************************************)
NoArg == [off |-> None, item |-> NoItem, id |-> NoId, idx |-> None, other |-> NoNode]

OptIds == Ids \cup {NoId}

\* offsets a caller may pass: every position up to one past the end, and
\* the sentinel
OffsetArgs(n) == {from(k) : k \in 0..(item_count(n) + 1)} \cup {before}

IndexArgs(n) == 0..(item_count(n) + 2)

Alive == last.ret.status # "panic"

Call(op, arg, res, seq) ==
    /\ node' = res.node
    /\ last' = [op |-> op, pre |-> node, arg |-> arg, ret |-> res, seq |-> seq]
    /\ UNCHANGED <<offVars, iterVars>>

Insert ==
    /\ Alive
    /\ item_count(node) <= MaxItems
    /\ \E offset \in OffsetArgs(node), item \in Items, opt \in OptIds :
          Call("insert", [NoArg EXCEPT !.off = offset, !.item = item, !.id = opt],
               insert(node, offset, item, opt), "none")

Replace ==
    /\ Alive
    /\ \E offset \in OffsetArgs(node), item \in Items :
          Call("replace", [NoArg EXCEPT !.off = offset, !.item = item],
               replace(node, offset, item), "none")

PushLeft ==
    /\ Alive
    /\ item_count(node) <= MaxItems
    /\ \E item \in Items, opt \in OptIds :
          Call("push_left", [NoArg EXCEPT !.item = item, !.id = opt],
               push_left(node, item, opt), "none")

PushRight ==
    /\ Alive
    /\ item_count(node) <= MaxItems
    /\ \E item \in Items, opt \in OptIds :
          Call("push_right", [NoArg EXCEPT !.item = item, !.id = opt],
               push_right(node, item, opt), "none")

PopLeft ==
    /\ Alive
    /\ Call("pop_left", NoArg, pop_left(node),
            IF last.op = "push_left" /\ last.ret.status = "ok" THEN "push_pop" ELSE "none")

PopRight ==
    /\ Alive
    /\ Call("pop_right", NoArg, pop_right(node),
            IF last.op = "push_right" /\ last.ret.status = "ok" THEN "push_pop" ELSE "none")

Split ==
    /\ Alive
    /\ \E m \in MedianChoices(item_count(node)) :
          Call("split", [NoArg EXCEPT !.idx = m], split(node, m), "none")

\* the node appended is the right half of the split just made, or a node
\* fresh from a constructor
AppendArgs ==
    (IF last.op = "split" /\ last.ret.status = "ok" THEN {last.ret.right} ELSE {})
      \cup {leaf(i) : i \in Items}
      \cup {binary(c, i, c) : c \in Ids, i \in Items}

AppendCall ==
    /\ Alive
    /\ \E separator \in Items, o \in AppendArgs :
          /\ item_count(node) + 1 + item_count(o) <= MaxItems + 1
          /\ Call("append", [NoArg EXCEPT !.item = separator, !.other = o],
                  append(node, separator, o),
                  IF /\ last.op = "split" /\ last.ret.status = "ok"
                     /\ separator = last.ret.item /\ o = last.ret.right
                  THEN "split_append" ELSE "none")

Merge ==
    /\ Alive
    /\ \E left_index \in 0..item_count(node) :
          Call("merge", [NoArg EXCEPT !.idx = left_index],
               merge(node, left_index, left_index + 1), "none")

LeafRemove ==
    /\ Alive
    /\ \E offset \in OffsetArgs(node) :
          Call("leaf_remove", [NoArg EXCEPT !.off = offset],
               leaf_remove(node, offset), "none")

ChildId ==
    /\ Alive
    /\ \E index \in IndexArgs(node) :
          Call("child_id", [NoArg EXCEPT !.idx = index], child_id(node, index), "none")

ChildIdOpt ==
    /\ Alive
    /\ \E index \in IndexArgs(node) :
          Call("child_id_opt", [NoArg EXCEPT !.idx = index],
               child_id_opt(node, index), "none")

ChildIndex ==
    /\ Alive
    /\ \E id \in Ids :
          Call("child_index", [NoArg EXCEPT !.id = id], child_index(node, id), "none")

(***************************************************************************)
(* Children / ChildrenWithSeparators (node.rs 543-597).  `rest` is the     *)
(* part of the branch slice the slice iterator has not consumed; peek      *)
(* looks at its head without consuming it.  `nones` counts the None        *)
(* returned so far, `yielded` lists what the iterator returned.            *)
(***************************************************************************)
NoIter == [kind |-> "None", variant |-> "Leaf", first |-> NoId, left_sep |-> NoItem,
           rest |-> << >>, nones |-> 0]

\* InternalNode::children: the pending leading child and a cursor at the
\* start of the branches
internal_children(n) ==
    [NoIter EXCEPT !.kind = "Children", !.variant = "Internal",
                   !.first = n.first_child, !.rest = n.branches]

\* InternalNode::children_with_separators
internal_children_with_separators(n) ==
    [NoIter EXCEPT !.kind = "ChildrenWithSeparators", !.variant = "Internal",
                   !.first = n.first_child, !.left_sep = NoItem, !.rest = n.branches]

\* Node::children
children(n) ==
    IF n.kind = "Leaf" THEN [NoIter EXCEPT !.kind = "Children"]
    ELSE internal_children(n)

\* Node::children_with_separators
children_with_separators(n) ==
    IF n.kind = "Leaf" THEN [NoIter EXCEPT !.kind = "ChildrenWithSeparators"]
    ELSE internal_children_with_separators(n)

Triple(left, child, right) == [left |-> left, child |-> child, right |-> right]

peek_item(rest) == IF Len(rest) = 0 THEN NoItem ELSE rest[1].item

\* Children::next: the iterator after the call and what it returned
\* (out = << >> is None)
Children_next(it) ==
    IF it.variant = "Leaf" THEN [it |-> it, out |-> << >>]
    ELSE IF it.first # NoId
         THEN [it |-> [it EXCEPT !.first = NoId], out |-> <<it.first>>]
         ELSE IF Len(it.rest) = 0 THEN [it |-> it, out |-> << >>]
              ELSE [it |-> [it EXCEPT !.rest = Tail(@)], out |-> <<it.rest[1].child>>]

\* mutant of ChildrenWithSeparators::next: the left separator is not
\* carried over to the next triple
ChildrenWithSeparators_next_stale(it) ==
    IF it.variant = "Leaf" THEN [it |-> it, out |-> << >>]
    ELSE IF it.first # NoId
         THEN [it |-> [it EXCEPT !.first = NoId, !.left_sep = peek_item(it.rest)],
               out |-> <<Triple(NoItem, it.first, peek_item(it.rest))>>]
         ELSE IF Len(it.rest) = 0 THEN [it |-> it, out |-> << >>]
              ELSE [it |-> [it EXCEPT !.rest = Tail(@)],
                    out |-> <<Triple(it.left_sep, it.rest[1].child, peek_item(Tail(it.rest)))>>]

\* ChildrenWithSeparators::next
ChildrenWithSeparators_next(it) ==
    IF it.variant = "Leaf" THEN [it |-> it, out |-> << >>]
    ELSE IF it.first # NoId
         THEN [it |-> [it EXCEPT !.first = NoId, !.left_sep = peek_item(it.rest)],
               out |-> <<Triple(NoItem, it.first, peek_item(it.rest))>>]
         ELSE IF Len(it.rest) = 0 THEN [it |-> it, out |-> << >>]
              ELSE [it |-> [it EXCEPT !.rest = Tail(@), !.left_sep = peek_item(Tail(it.rest))],
                    out |-> <<Triple(it.left_sep, it.rest[1].child, peek_item(Tail(it.rest)))>>]

\* a fresh call of children() on the node
ChildrenNew ==
    /\ iter' = children(node)
    /\ yielded' = << >>
    /\ UNCHANGED <<offVars, nodeVars>>

\* a fresh call of children_with_separators() on the node
ChildrenWithSeparatorsNew ==
    /\ iter' = children_with_separators(node)
    /\ yielded' = << >>
    /\ UNCHANGED <<offVars, nodeVars>>

Advance(r) ==
    /\ r.out = << >> => iter.nones < MaxNones
    /\ iter' = [r.it EXCEPT !.nones = IF r.out = << >> THEN @ + 1 ELSE @]
    /\ yielded' = yielded \o r.out
    /\ UNCHANGED <<offVars, nodeVars>>

ChildrenNext ==
    /\ iter.kind = "Children"
    /\ Advance(Children_next(iter))

ChildrenWithSeparatorsNext ==
    /\ iter.kind = "ChildrenWithSeparators"
    /\ Advance(ChildrenWithSeparators_next(iter))

(***************************************************************************)
(* Specifications.                                                         *)
(***************************************************************************)
SeqsUpTo(S, n) == UNION {[1..k -> S] : k \in 0..n}

\* every leaf and internal node of at most max_items + 1 items
AllNodes ==
    {[kind |-> "Leaf", items |-> its, first_child |-> NoId, branches |-> << >>] :
        its \in SeqsUpTo(Items, MaxItems + 1)}
    \cup
    {[kind |-> "Internal", items |-> << >>, first_child |-> c, branches |-> bs] :
        c \in Ids, bs \in SeqsUpTo([item : Items, child : Ids], MaxItems + 1)}

NewCall(n) == [op |-> "new", pre |-> NoNode, arg |-> NoArg, ret |-> Ret("ok", n), seq |-> "none"]

OffInit == off = before /\ off_pre = before /\ off_op = "before"

NodeInit ==
    /\ node = leaf(1)
    /\ last = NewCall(node)

IterInit == iter = NoIter /\ yielded = << >>

\* Offset: an offset fresh from a constructor, then incr / decr / assignment
InitOffset ==
    /\ \/ off = before /\ off_op = "before"
       \/ \E k \in Usize : off = from(k) /\ off_op = "from"
    /\ off_pre = off
    /\ NodeInit
    /\ IterInit

NextOffset == OffBefore \/ OffFrom \/ OffIncr \/ OffDecr

SpecOffset == InitOffset /\ [][NextOffset]_vars

\* Node: a node fresh from Node::leaf or Node::binary, then the driver's calls
InitNode ==
    /\ node \in {leaf(i) : i \in Items}
                  \cup {binary(l, m, r) : l \in Ids, m \in Items, r \in Ids}
    /\ last = NewCall(node)
    /\ OffInit
    /\ IterInit

NextNode ==
    \/ Insert \/ Replace \/ PushLeft \/ PushRight \/ PopLeft \/ PopRight
    \/ Split \/ AppendCall \/ Merge \/ LeafRemove
    \/ ChildId \/ ChildIdOpt \/ ChildIndex

SpecNode == InitNode /\ [][NextNode]_vars

\* Iterators: any node, iterated by fresh iterators
InitIter ==
    /\ node \in AllNodes
    /\ last = NewCall(node)
    /\ OffInit
    /\ IterInit

NextIter ==
    \/ ChildrenNew \/ ChildrenWithSeparatorsNew
    \/ ChildrenNext \/ ChildrenWithSeparatorsNext

SpecIter == InitIter /\ [][NextIter]_vars

(***************************************************************************)
(* Properties of Offset (checked under SpecOffset).                        *)
(***************************************************************************)
\* C1: the sentinel is strictly less than Offset::from(k) for every usize k,
\* and equal to itself.
C1_BeforeBelowEveryFrom ==
    /\ off_op = "from" => cmp(before, off) = "Less"
    /\ cmp(before, before) = "Equal" /\ offset_eq(before, before)

\* C2: incr maps the sentinel to 0 and a concrete n to the concrete n + 1,
\* never to the sentinel; decr maps 0 to the sentinel and a concrete n > 0
\* to n - 1.
C2_IncrDecrContract ==
    /\ off_op = "incr" =>
          IF is_before(off_pre) THEN value(off) = 0
          ELSE ~is_before(off) /\ value(off) = off_pre + 1
    /\ (off_op = "decr" /\ ~is_before(off_pre)) =>
          IF off_pre = 0 THEN is_before(off)
          ELSE value(off) = off_pre - 1

\* C10: decr never moves an offset upward in the Offset order, and the
\* sentinel stays the sentinel under decr.
C10_DecrNeverUpward ==
    off_op = "decr" =>
        /\ cmp(off, off_pre) \in {"Less", "Equal"}
        /\ is_before(off_pre) => is_before(off)

(***************************************************************************)
(* Properties of Node (checked under SpecNode).                            *)
(***************************************************************************)
\* C3: leaf_remove on an internal node of n items leaves the node as it
\* was; it returns Some(Err(child_id(i))) for a concrete offset i < n and
\* None for every other offset, the sentinel included.  On a leaf with
\* i < item_count it removes and returns the item at i.
C3_LeafRemoveContract ==
    last.op = "leaf_remove" =>
        LET o == last.arg.off
            concrete == ~is_before(o) /\ o < item_count(last.pre)
        IN IF last.pre.kind = "Internal"
           THEN /\ node = last.pre
                /\ IF concrete
                   THEN /\ last.ret.status = "err"
                        /\ last.ret.id = internal_child_ids(last.pre)[o + 1]
                   ELSE last.ret.status = "none"
           ELSE concrete =>
                /\ last.ret.status = "ok"
                /\ last.ret.item = last.pre.items[o + 1]
                /\ node.items = RemoveAt(last.pre.items, o)
                /\ item_count(node) = item_count(last.pre) - 1

WrongVariantAppend ==
    /\ last.op = "append"
    /\ last.pre.kind # last.arg.other.kind

ChildArgMatches == (last.arg.id # NoId) <=> (last.pre.kind = "Internal")

\* C5: push_left, push_right and insert proceed iff the child address is
\* Some exactly when the node is internal; otherwise the call is fatal and
\* the node is not modified.
C5_ChildArgChecked ==
    last.op \in {"push_left", "push_right", "insert"} =>
        /\ ~ChildArgMatches => last.ret.status = "panic" /\ node = last.pre
        /\ (ChildArgMatches /\ last.op # "insert") =>
              /\ last.ret.status = "ok"
              /\ item_count(node) = item_count(last.pre) + 1
        /\ (ChildArgMatches /\ last.op = "insert" /\ ~is_before(last.arg.off)
              /\ last.arg.off <= item_count(last.pre)) =>
              /\ last.ret.status = "ok"
              /\ item_count(node) = item_count(last.pre) + 1
              /\ node_items(node)[last.arg.off + 1] = last.arg.item
        /\ (last.ret.status = "ok" /\ last.pre.kind = "Internal") =>
              \E i \in 1..child_count(node) : internal_child_ids(node)[i] = last.arg.id

C5_Witness ==
    /\ last.op = "push_left"
    /\ last.pre.kind = "Leaf"
    /\ last.arg.id # NoId
    /\ last.ret.status = "panic"

\* C7: split followed by append of the median and the right half restores
\* the node's items (and, for an internal node, its child addresses);
\* append returns the offset of the median, the length split reported.
C7_SplitAppendRoundTrip ==
    [][last'.seq = "split_append" =>
          /\ last'.ret.status = "ok"
          /\ node'.kind = last.pre.kind
          /\ node_items(node') = node_items(last.pre)
          /\ last.pre.kind = "Internal" =>
                internal_child_ids(node') = internal_child_ids(last.pre)
          /\ last'.ret.off = from(last.ret.len)
          /\ node_items(node')[last'.ret.off + 1] = last.ret.item]_vars

C7_Witness ==
    /\ last.seq = "split_append"
    /\ last.ret.status = "ok"
    /\ node.kind = "Internal"
    /\ item_count(node) = MaxItems + 1

\* a pop right after the matching push, on a node that held at least lo
\* items and had spare capacity, undoes the push
PushPopRestores(lo) ==
    (last'.seq = "push_pop" /\ lo <= item_count(last.pre)
       /\ item_count(last.pre) < MaxItems) =>
          /\ last'.ret.status = "ok"
          /\ last'.ret.item = last.arg.item
          /\ last.pre.kind = "Internal" => last'.ret.id = last.arg.id
          /\ item_count(node') = item_count(last.pre)
          /\ node_items(node') = node_items(last.pre)
          /\ node' = last.pre

\* C8 as stated: on every node with spare capacity, push_right then
\* pop_right (push_left then pop_left) succeeds, returns the pushed item
\* and child address and leaves the items unchanged.
C8_PushPopAnyNode == [][PushPopRestores(0)]_vars

\* the least occupancy from which a pushed item can be popped again
PopFloor == IF MinItems > 1 THEN MinItems ELSE 1

\* C8 amended: the same, on every node with spare capacity that holds at
\* least min_items items and at least one item.
C8_PushPopAmended == [][PushPopRestores(PopFloor)]_vars

C8_Witness ==
    /\ last.seq = "push_pop"
    /\ last.op = "pop_right"
    /\ last.ret.status = "ok"
    /\ last.pre.kind = "Internal"
    /\ last.ret.id # NoId

Parity(n) ==
    IF n.kind = "Internal" THEN child_count(n) = item_count(n) + 1
    ELSE child_count(n) = 0

ExpectedTriple(n, j) ==
    Triple(IF j = 1 THEN NoItem ELSE node_items(n)[j - 1],
           internal_child_ids(n)[j],
           IF j = item_count(n) + 1 THEN NoItem ELSE node_items(n)[j])

ExpectedCount(n) == IF n.kind = "Internal" THEN item_count(n) + 1 ELSE 0

\* C6: a fresh children_with_separators() yields exactly the n + 1 triples
\* (s_{j-1}, c_j, s_j) and then None forever; children() yields c_0..c_n;
\* on a leaf both yield nothing.
C6_IteratorsYieldChildren ==
    /\ Len(yielded) <= ExpectedCount(node)
    /\ iter.nones > 0 => Len(yielded) = ExpectedCount(node)
    /\ iter.kind = "ChildrenWithSeparators" =>
          \A j \in 1..Len(yielded) : yielded[j] = ExpectedTriple(node, j)
    /\ iter.kind = "Children" =>
          \A j \in 1..Len(yielded) : yielded[j] = internal_child_ids(node)[j]

C6_Witness ==
    /\ iter.kind = "ChildrenWithSeparators"
    /\ node.kind = "Internal"
    /\ item_count(node) >= 2
    /\ Len(yielded) = item_count(node) + 1
    /\ iter.nones = MaxNones

====
